---- MODULE Spec2Model ----
(***************************************************************************)
(* Model of the contact tracker (regaleaglebeagle/contact_tracker).        *)
(*                                                                         *)
(* Two ROS nodes are modelled, each a KalmanTracker with one registry      *)
(* all_contacts and one callback per Detect message:                       *)
(*   nodes/tracker_debug.py  (node = "tracker_debug")                      *)
(*   nodes/tracker.py        (node = "tracker")                            *)
(* and the Contact class of src/contact_tracker/contact.py.                *)
(*                                                                         *)
(* Numbers.  Positions, variances and times are integers.  float('nan')    *)
(* is the value NaN; every comparison with NaN is False, as in Python.     *)
(* filterpy's KalmanFilter (predict/update) is a library outside the       *)
(* repository: its position estimate after a cycle is any grid value       *)
(* between the estimate before the cycle and the measured position, and    *)
(* NaN as soon as the measurement vector holds a NaN.                      *)
(***************************************************************************)
EXTENDS Integers, Sequences, FiniteSets, TLC

VARIABLES
    node,          \* which node runs: "tracker_debug" or "tracker"
    now,           \* the clock (rospy.get_rostime(), time.time()) when the
                   \* last callback ran
    all_contacts,  \* KalmanTracker.all_contacts, in iteration order:
                   \* a sequence of [key, val]; val is a contact or None
    data,          \* the Detect message last handed to callback (<<>>: none yet)
    contact_id,    \* callback's local contact_id (<<>>: not assigned)
    outcome,       \* how the last callback ended
    delivered,     \* number of Detect messages delivered so far
    contact,       \* a Contact of contact.py with its filter bank (<<>>: none
                   \* constructed)
    threads        \* the callback invocations in progress, one per thread
                   \* that delivers messages: position and locals (<<>>:
                   \* callbacks run whole)

vars == <<node, now, all_contacts, data, contact_id, outcome, delivered, contact,
          threads>>

----------------------------------------------------------------------------
(* Bounds of the model *)

MaxDetects == 3
MaxTime == 2
MaxFilters == 2
MaxDt == 2

(* Values a Detect message can carry *)
NaN == -999
Pos == {0, 10}
Vel == {0}
Variances == {1}

isnan(v) == v = NaN

(* Configuration read by reconfigure_callback *)
qhat == 1
variance == 1
max_stale_contact_time == 1
max_time == 1

(* tracker.py: DEBUG = True *)
DEBUG == TRUE

None == [none |-> TRUE]

Nodes == {"tracker_debug", "tracker"}

----------------------------------------------------------------------------
(* Detect messages: pose.pose.position.{x,y}, twist.twist.linear.{x,y},    *)
(* pose.covariance (row-major 6x6: 0 is [0][0], 6 is [1][0], 7 is [1][1]), *)
(* header.stamp.                                                           *)

(* A message is stamped within one time unit of the clock the node last   *)
(* read: sources stamp on their own clocks and messages overtake each      *)
(* other, so a stamp can equal or precede the stamp of an earlier message. *)
Stamps(t) == {u \in 0..MaxTime : u - t \in {-1, 0, 1}}

Messages(t) ==
    [stamp : Stamps(t),
     x_pos : Pos \cup {NaN}, y_pos : Pos \cup {NaN},
     x_vel : Vel \cup {NaN}, y_vel : Vel \cup {NaN},
     pos_covar : {[i \in {0, 6, 7} |-> IF i = 6 THEN 0 ELSE v] : v \in Variances}]

PairOk(a, b) == (a = NaN) <=> (b = NaN)

(* Every message with both pairs consistent; of the messages with a pair   *)
(* half present, whose present values are never read, those stamped t      *)
(* with the present values 0                                               *)
Detects(t) ==
    {d \in Messages(t) :
        \/ PairOk(d.x_pos, d.y_pos) /\ PairOk(d.x_vel, d.y_vel)
        \/ /\ d.stamp = t
           /\ \A f \in {"x_pos", "y_pos", "x_vel", "y_vel"} : d[f] \in {0, NaN}}

(* callback: the dictionary detect_info built from the message *)
detect_info_of(d) ==
    [header |-> [stamp |-> d.stamp],
     pos_covar |-> d.pos_covar,
     x_pos |-> d.x_pos, y_pos |-> d.y_pos,
     x_vel |-> d.x_vel, y_vel |-> d.y_vel]

(* callback: "Check to see that if one coordinate is not NaN, neither is   *)
(* the other"; FALSE is the early return                                   *)
pos_pair_ok(di) ==
    ~ ((~isnan(di.x_pos) /\ isnan(di.y_pos)) \/ (isnan(di.x_pos) /\ ~isnan(di.y_pos)))

vel_pair_ok(di) ==
    ~ ((~isnan(di.x_vel) /\ isnan(di.y_vel)) \/ (isnan(di.x_vel) /\ ~isnan(di.y_vel)))

(* validate without its second check *)
validate_pos_only(di) == pos_pair_ok(di)

validate(di) == pos_pair_ok(di) /\ vel_pair_ok(di)

----------------------------------------------------------------------------
(* The registry as a dictionary.  The sequence is the order in which a     *)
(* for loop over the dictionary visits the keys: the order of insertion.   *)

Keys(reg) == {reg[i].key : i \in 1..Len(reg)}

IndexOf(reg, k) == CHOOSE i \in 1..Len(reg) : reg[i].key = k

Get(reg, k) == reg[IndexOf(reg, k)].val

(* all_contacts[k] = v: a new key is appended, an old key keeps its place *)
Put(reg, k, v) ==
    IF k \in Keys(reg)
    THEN [reg EXCEPT ![IndexOf(reg, k)] = [key |-> k, val |-> v]]
    ELSE Append(reg, [key |-> k, val |-> v])

Contacts(reg) == {reg[i].val : i \in 1..Len(reg)} \ {None}

----------------------------------------------------------------------------
(* Contact with its id taken from the detection's position *)
Contact_id_from_position(detect_info, timestamp) ==
    [dt |-> 1,
     last_measured |-> detect_info.header.stamp,
     last_xpos |-> 0, last_ypos |-> 0, last_xvel |-> 0, last_yvel |-> 0,
     xs |-> <<>>, zs |-> <<>>, ps |-> <<>>, times |-> <<>>,
     info |-> detect_info,
     id |-> detect_info.x_pos]

(* contact.py, Contact.__init__: the attributes the nodes read and write  *)
Contact(detect_info, timestamp) ==
    [dt |-> 1,
     last_measured |-> detect_info.header.stamp,
     last_xpos |-> 0, last_ypos |-> 0, last_xvel |-> 0, last_yvel |-> 0,
     xs |-> <<>>, zs |-> <<>>, ps |-> <<>>, times |-> <<>>,
     info |-> detect_info,
     id |-> timestamp]

(* filterpy.common.Q_discrete_white_noise(dim=4, dt=dt, var=var): the      *)
(* matrix is a function of its arguments, kept as those arguments          *)
Q_discrete_white_noise(dt, var) == [dt |-> dt, var |-> var]

(* The attributes the nodes use that contact.py does not define: the       *)
(* creation stamp first_measured and the single filter kf set up by        *)
(* init_kf_with_position_only / _velocity_only / _position_and_velocity.   *)
(* The state is seeded from the detection's channels (an absent channel    *)
(* starts at zero), R from the reported position variances.                *)
init_kf(c, detect_info) ==
    c @@ [first_measured |-> detect_info.header.stamp,
          kf |-> [x |-> <<IF isnan(detect_info.x_pos) THEN 0 ELSE detect_info.x_pos,
                          IF isnan(detect_info.y_pos) THEN 0 ELSE detect_info.y_pos>>,
                  R |-> <<detect_info.pos_covar[0], detect_info.pos_covar[7]>>,
                  Q |-> Q_discrete_white_noise(c.dt, variance),
                  z |-> <<>>]]

(* check_all_contacts, the condition of its if: no abs() around the        *)
(* differences; a NaN operand makes the comparison False                   *)
gate(detect_info, c) ==
    /\ ~isnan(detect_info.x_pos) /\ ~isnan(c.kf.x[1])
    /\ (detect_info.x_pos - c.kf.x[1]) < ((detect_info.pos_covar[0] + c.kf.R[1]) * 2)
    /\ ~isnan(detect_info.y_pos) /\ ~isnan(c.kf.x[2])
    /\ (detect_info.y_pos - c.kf.x[2]) < ((detect_info.pos_covar[7] + c.kf.R[2]) * 2)

(* check_all_contacts: the loop from entry i on.  Reading c.kf of a None   *)
(* entry raises AttributeError (raised).                                   *)
RECURSIVE check_from(_, _, _, _)
check_from(reg, i, detect_info, new_stamp) ==
    IF i > Len(reg) THEN [raised |-> FALSE, id |-> new_stamp]
    ELSE IF reg[i].val = None THEN [raised |-> TRUE, id |-> new_stamp]
    ELSE IF gate(detect_info, reg[i].val) THEN [raised |-> FALSE, id |-> reg[i].val.id]
    ELSE check_from(reg, i + 1, detect_info, new_stamp)

(* check_all_contacts returning no id (-1) when nothing matches *)
check_all_contacts_no_new_id(reg, detect_info, new_stamp) ==
    check_from(reg, 1, detect_info, -1)

check_all_contacts(reg, detect_info, new_stamp) ==
    check_from(reg, 1, detect_info, new_stamp)

(* callback: contact_id, by the stamp when the registry is empty *)
lookup(reg, detect_info) ==
    IF Len(reg) = 0
    THEN [raised |-> FALSE, id |-> detect_info.header.stamp]
    ELSE check_all_contacts(reg, detect_info, detect_info.header.stamp)

(* callback, the create branch: the value c stored under the stamp; no     *)
(* branch is taken, and c stays None, when both pairs are absent           *)
new_contact(detect_info) ==
    IF ~isnan(detect_info.x_pos) /\ isnan(detect_info.x_vel)
    THEN init_kf(Contact(detect_info, detect_info.header.stamp), detect_info)
    ELSE IF isnan(detect_info.x_pos) /\ ~isnan(detect_info.x_vel)
    THEN init_kf(Contact(detect_info, detect_info.header.stamp), detect_info)
    ELSE IF ~isnan(detect_info.x_pos) /\ ~isnan(detect_info.x_vel)
    THEN init_kf(Contact(detect_info, detect_info.header.stamp), detect_info)
    ELSE None

(* callback, the update branch: epoch *)
epoch_of(c, stamp) == stamp - c.first_measured

(* callback, the update branch: dt, Q, info and the last_* channels *)
refresh(c, detect_info) ==
    LET epoch == epoch_of(c, detect_info.header.stamp) IN
    [c EXCEPT
        !.last_measured = detect_info.header.stamp,
        !.dt = epoch,
        !.kf.Q = Q_discrete_white_noise(epoch * qhat, variance),
        !.info = detect_info,
        !.last_xpos = IF ~isnan(detect_info.x_pos) THEN detect_info.x_pos ELSE @,
        !.last_ypos = IF ~isnan(detect_info.x_pos) THEN detect_info.y_pos ELSE @,
        !.last_xvel = IF ~isnan(detect_info.x_vel) THEN detect_info.x_vel ELSE @,
        !.last_yvel = IF ~isnan(detect_info.x_vel) THEN detect_info.y_vel ELSE @]

(* callback: the tuple handed to c.kf.update *)
measurement(c, detect_info) ==
    IF isnan(detect_info.x_pos)
    THEN <<c.last_xpos, c.last_ypos, c.info.x_vel, c.info.y_vel>>
    ELSE IF isnan(detect_info.x_vel)
    THEN <<c.info.x_pos, c.info.y_pos, c.last_xvel, c.last_yvel>>
    ELSE <<c.info.x_pos, c.info.y_pos, c.info.x_vel, c.info.y_vel>>

Between(a, b) ==
    {p \in Pos \cup {a, b} : (a <= p /\ p <= b) \/ (b <= p /\ p <= a)}

(* c.kf.predict(); c.kf.update(z): the position estimates kf.x can hold    *)
(* afterwards                                                              *)
KalmanCycle(x, z) ==
    IF (\E i \in 1..Len(z) : isnan(z[i])) \/ isnan(x[1]) \/ isnan(x[2])
    THEN {<<NaN, NaN>>}
    ELSE {<<ex, ey>> : ex \in Between(x[1], z[1]), ey \in Between(x[2], z[2])}

(* record without the append to times *)
record_no_times(c, est, z, epoch) ==
    [c EXCEPT
        !.kf.x = est,
        !.kf.z = z,
        !.xs = Append(@, est),
        !.zs = Append(@, z),
        !.ps = Append(@, "P")]

(* callback: predict, update and the appends to xs, zs, ps, times *)
record(c, est, z, epoch) ==
    [c EXCEPT
        !.kf.x = est,
        !.kf.z = z,
        !.xs = Append(@, est),
        !.zs = Append(@, z),
        !.ps = Append(@, "P"),
        !.times = Append(@, epoch)]

----------------------------------------------------------------------------
(* contact.py: the Contact with a bank of filters (all_filters).           *)
(* Matrices are functions on (row, column), both counted from 0 as in the  *)
(* source; a state vector is a function on 0..5.                           *)

Mat(rows) ==
    [p \in (0..(Len(rows) - 1)) \X (0..(Len(rows) - 1)) |-> rows[p[1] + 1][p[2] + 1]]

Dim(m) == Cardinality({p[1] : p \in DOMAIN m})

zeros(n) == [p \in (0..(n - 1)) \X (0..(n - 1)) |-> 0]

eye(n) == [p \in (0..(n - 1)) \X (0..(n - 1)) |-> IF p[1] = p[2] THEN 1 ELSE 0]

(* Contact.__init__: spectral densities, in tenths *)
vel_var == 5
acc_var == 1

FilterTypes == {"first", "second"}

(* A filter as its caller hands it over: filterpy's KalmanFilter(dim_x=6)  *)
(* starts with x = 0, F = Q = P = I; filter_type is set by the caller.     *)
(* The entries of F are kept in halves.                                    *)
KalmanFilter(filter_type) ==
    [filter_type |-> filter_type,
     x |-> [i \in 0..5 |-> 0],
     F |-> [p \in (0..5) \X (0..5) |-> 2 * eye(6)[p]],
     Q |-> eye(6), P |-> eye(6)]

(* IMMEstimator refuses a bank of fewer than two filters *)
Banks ==
    UNION {[1..n -> {KalmanFilter(ft) : ft \in FilterTypes}] : n \in 2..MaxFilters}

(* filterpy.common.Q_continuous_white_noise(dim, dt, spectral_density,     *)
(* block_size=2, order_by_dim=False), in units of 1/1200 (the spectral     *)
(* density in tenths): the dim x dim block of the integrated white noise,  *)
(* each entry spread over the block_size axes                              *)
noise_block(dim, dt) ==
    IF dim = 2
    THEN Mat(<< <<40 * dt * dt * dt, 60 * dt * dt>>,
                <<60 * dt * dt,      120 * dt>> >>)
    ELSE Mat(<< <<6 * dt * dt * dt * dt * dt, 15 * dt * dt * dt * dt, 20 * dt * dt * dt>>,
                <<15 * dt * dt * dt * dt,     40 * dt * dt * dt,      60 * dt * dt>>,
                <<20 * dt * dt * dt,          60 * dt * dt,           120 * dt>> >>)

Q_continuous_white_noise(dim, spectral_density, dt, block_size) ==
    [p \in (0..(dim * block_size - 1)) \X (0..(dim * block_size - 1)) |->
        IF p[1] % block_size = p[2] % block_size
        THEN spectral_density
                * noise_block(dim, dt)[<<p[1] \div block_size, p[2] \div block_size>>]
        ELSE 0]

(* set_Q without the zero padding of the 'first' filters *)
set_Q_unpadded(c) ==
    [c EXCEPT !.all_filters =
        [i \in DOMAIN @ |->
            IF @[i].filter_type = "first"
            THEN [@[i] EXCEPT !.Q = Q_continuous_white_noise(2, c.vel_var, c.dt, 2)]
            ELSE IF @[i].filter_type = "second"
            THEN [@[i] EXCEPT !.Q = Q_continuous_white_noise(3, c.acc_var, c.dt, 2)]
            ELSE @[i]]]

(* empty_array[:noise.shape[0], :noise.shape[1]] = noise *)
pad(noise, n) ==
    [p \in DOMAIN zeros(n) |-> IF p \in DOMAIN noise THEN noise[p] ELSE zeros(n)[p]]

(* Contact.set_Q: every filter of the bank, by its filter_type *)
set_Q(c) ==
    [c EXCEPT !.all_filters =
        [i \in DOMAIN @ |->
            IF @[i].filter_type = "first"
            THEN [@[i] EXCEPT !.Q = pad(Q_continuous_white_noise(2, c.vel_var, c.dt, 2), 6)]
            ELSE IF @[i].filter_type = "second"
            THEN [@[i] EXCEPT !.Q = Q_continuous_white_noise(3, c.acc_var, c.dt, 2)]
            ELSE @[i]]]

(* init_filters: F of its two branches, entries in halves *)
F_position_only(dt) ==
    Mat(<< <<2, 0, 2 * dt, 0, dt * dt, 0>>,
           <<0, 2, 0, 2 * dt, 0, dt * dt>>,
           <<0, 0, 2, 0, 2 * dt, 0>>,
           <<0, 0, 0, 2, 0, 2 * dt>>,
           <<0, 0, 0, 0, 0, 0>>,
           <<0, 0, 0, 0, 0, 0>> >>)

F_position_and_velocity(dt) ==
    Mat(<< <<2, 0, 2 * dt, 0, dt * dt, 0>>,
           <<0, 2, 0, 2 * dt, 0, dt * dt>>,
           <<0, 0, 2, 0, 2 * dt, 0>>,
           <<0, 0, 0, 2, 0, 2 * dt>>,
           <<0, 0, 0, 0, 2, 0>>,
           <<0, 0, 0, 0, 0, 2>> >>)

(* init_filters: "Define the state covariance matrix" *)
P_seed(info) ==
    Mat(<< <<100 * info.pos_covar[0], 0, 0, 0, 0, 0>>,
           <<0, 100 * info.pos_covar[6], 0, 0, 0, 0>>,
           <<0, 0, 25, 0, 0, 0>>,
           <<0, 0, 0, 25, 0, 0>>,
           <<0, 0, 0, 0, 1, 0>>,
           <<0, 0, 0, 0, 0, 1>> >>)

(* init_filters, one pass of its loop: x and F of filter i by the shape    *)
(* of the detection (no branch for a detection without position), set_Q    *)
(* on the whole bank, then P of filter i                                   *)
init_filter(c, i) ==
    LET seeded ==
            IF ~isnan(c.info.x_pos) /\ isnan(c.info.x_vel)
            THEN [c EXCEPT
                    !.all_filters[i].x =
                        [k \in 0..5 |-> IF k = 0 THEN c.info.x_pos
                                        ELSE IF k = 1 THEN c.info.y_pos ELSE 0],
                    !.all_filters[i].F = F_position_only(c.dt)]
            ELSE IF ~isnan(c.info.x_pos) /\ ~isnan(c.info.x_vel)
            THEN [c EXCEPT
                    !.all_filters[i].x =
                        [k \in 0..5 |-> IF k = 0 THEN c.info.x_pos
                                        ELSE IF k = 1 THEN c.info.y_pos
                                        ELSE IF k = 2 THEN c.info.x_vel
                                        ELSE IF k = 3 THEN c.info.y_vel ELSE 0],
                    !.all_filters[i].F = F_position_and_velocity(c.dt)]
            ELSE c
    IN [set_Q(seeded) EXCEPT !.all_filters[i].P = P_seed(c.info)]

RECURSIVE init_filters_from(_, _)
init_filters_from(c, i) ==
    IF i > Len(c.all_filters) THEN c ELSE init_filters_from(init_filter(c, i), i + 1)

(* Contact.init_filters *)
init_filters(c) == init_filters_from(c, 1)

(* Contact.__init__ with its bank: mu, M (the second assignment stands),   *)
(* in tenths; then init_filters                                            *)
Contact_with_filters(detect_info, all_filters, timestamp) ==
    init_filters(Contact(detect_info, timestamp)
                 @@ [mu |-> <<3, 7>>,
                     M |-> << <<5, 5>>, <<5, 5>> >>,
                     all_filters |-> all_filters,
                     vel_var |-> vel_var,
                     acc_var |-> acc_var])

----------------------------------------------------------------------------
Init ==
    /\ node \in Nodes
    /\ now = 0
    /\ all_contacts = <<>>
    /\ data = <<>>
    /\ contact_id = <<>>
    /\ outcome = "init"
    /\ delivered = 0
    /\ contact = <<>>
    /\ threads = <<>>

(* The clock after a message stamped u has been handled: not before u *)
Clock(t, u) == IF u > t THEN u ELSE t

(* tracker_debug.py, KalmanTracker.callback *)
callback(d) ==
    /\ node = "tracker_debug"
    /\ delivered < MaxDetects
    /\ delivered' = delivered + 1
    /\ data' = d
    /\ now' = Clock(now, d.stamp)
    /\ UNCHANGED <<node, contact, threads>>
    /\ LET detect_info == detect_info_of(d)
           found == lookup(all_contacts, detect_info)
           cid == found.id
           creating == cid \notin Keys(all_contacts)
           epoch == IF creating THEN 0
                    ELSE epoch_of(Get(all_contacts, cid), detect_info.header.stamp)
           reg1 == IF creating
                   THEN Put(all_contacts, detect_info.header.stamp,
                            new_contact(detect_info))
                   ELSE Put(all_contacts, cid,
                            refresh(Get(all_contacts, cid), detect_info))
       IN
       IF ~validate(detect_info)
       THEN /\ outcome' = "rejected"
            /\ contact_id' = <<>>
            /\ UNCHANGED all_contacts
       ELSE IF found.raised
       THEN /\ outcome' = "raised"
            /\ contact_id' = <<>>
            /\ UNCHANGED all_contacts
       ELSE IF ~creating /\ Get(all_contacts, cid) = None
       THEN /\ outcome' = "raised"
            /\ contact_id' = <<cid>>
            /\ UNCHANGED all_contacts
       ELSE IF Get(reg1, cid) = None
       THEN /\ outcome' = "raised"
            /\ contact_id' = <<cid>>
            /\ all_contacts' = reg1
       ELSE LET c == Get(reg1, cid)
                z == measurement(c, detect_info)
            IN
            /\ outcome' = IF creating THEN "created" ELSE "updated"
            /\ contact_id' = <<cid>>
            /\ \E est \in KalmanCycle(c.kf.x, z) :
                  all_contacts' = Put(reg1, cid, record(c, est, z, epoch))

(* tracker_debug.py, callback run whole on registry reg: the registries    *)
(* it can leave                                                            *)
after_callback(reg, d) ==
    LET detect_info == detect_info_of(d)
        found == lookup(reg, detect_info)
        cid == found.id
        creating == cid \notin Keys(reg)
        epoch == IF creating THEN 0
                 ELSE epoch_of(Get(reg, cid), detect_info.header.stamp)
        reg1 == IF creating
                THEN Put(reg, detect_info.header.stamp, new_contact(detect_info))
                ELSE Put(reg, cid, refresh(Get(reg, cid), detect_info))
    IN IF ~validate(detect_info) \/ found.raised THEN {reg}
       ELSE IF ~creating /\ Get(reg, cid) = None THEN {reg}
       ELSE IF Get(reg1, cid) = None THEN {reg1}
       ELSE LET c == Get(reg1, cid)
                z == measurement(c, detect_info)
            IN {Put(reg1, cid, record(c, est, z, epoch)) : est \in KalmanCycle(c.kf.x, z)}

(* tracker.py, callback: contact_id (the else branch is dead: DEBUG is     *)
(* True)                                                                   *)
tracker_contact_id(detect_info) ==
    IF DEBUG THEN 1 ELSE <<detect_info.x_pos, detect_info.y_pos>>

(* tracker.py: the attributes its Contact takes from start_time and from   *)
(* the KalmanFilter(dim_x=4, dim_z=...) it is given; contact.py defines    *)
(* neither first_accessed nor kf                                           *)
init_kf_tracker(c, detect_info, start_time, dim_z) ==
    c @@ [first_accessed |-> start_time,
          last_accessed |-> start_time,
          kf |-> [x |-> <<IF isnan(detect_info.x_pos) THEN 0 ELSE detect_info.x_pos,
                          IF isnan(detect_info.y_pos) THEN 0 ELSE detect_info.y_pos>>,
                  R |-> <<detect_info.pos_covar[0], detect_info.pos_covar[7]>>,
                  Q |-> Q_discrete_white_noise(c.dt, variance),
                  z |-> <<>>,
                  dim_z |-> dim_z]]

(* tracker.py, callback, the create branch *)
tracker_new_contact(detect_info, start_time, cid) ==
    IF ~isnan(detect_info.x_pos) /\ isnan(detect_info.x_vel)
    THEN init_kf_tracker(Contact(detect_info, cid), detect_info, start_time, 2)
    ELSE IF isnan(detect_info.x_pos) /\ ~isnan(detect_info.x_vel)
    THEN init_kf_tracker(Contact(detect_info, cid), detect_info, start_time, 2)
    ELSE IF ~isnan(detect_info.x_pos) /\ ~isnan(detect_info.x_vel)
    THEN init_kf_tracker(Contact(detect_info, cid), detect_info, start_time, 4)
    ELSE None

(* tracker.py, callback, the update branch: epoch *)
tracker_epoch_of(c, t) == t - c.first_accessed

(* tracker.py, callback, the update branch *)
tracker_refresh(c, detect_info, t) ==
    LET epoch == tracker_epoch_of(c, t) IN
    [c EXCEPT
        !.last_accessed = t,
        !.dt = epoch,
        !.kf.Q = Q_discrete_white_noise(epoch * qhat, "0.04**2"),
        !.info = detect_info]

(* tracker.py, callback: the tuple handed to c.kf.update *)
tracker_measurement(c) ==
    IF c.kf.dim_z = 4
    THEN <<c.info.x_pos, c.info.y_pos, c.info.x_vel, c.info.y_vel>>
    ELSE <<c.info.x_pos, c.info.y_pos>>

(* tracker.py, callback: predict, update and the appends to xs, zs, times *)
tracker_record(c, est, z, epoch) ==
    [c EXCEPT
        !.kf.x = est,
        !.kf.z = z,
        !.xs = Append(@, est),
        !.zs = Append(@, z),
        !.times = Append(@, epoch)]

(* tracker.py, KalmanTracker.callback; t is what time.time() returns *)
tracker_callback(d, t) ==
    /\ node = "tracker"
    /\ delivered < MaxDetects
    /\ delivered' = delivered + 1
    /\ data' = d
    /\ UNCHANGED <<node, contact, threads>>
    /\ LET detect_info == detect_info_of(d)
           cid == tracker_contact_id(detect_info)
           creating == cid \notin Keys(all_contacts)
           epoch == IF creating THEN 0
                    ELSE tracker_epoch_of(Get(all_contacts, cid), t)
           reg1 == IF creating
                   THEN Put(all_contacts, cid,
                            tracker_new_contact(detect_info, t, cid))
                   ELSE Put(all_contacts, cid,
                            tracker_refresh(Get(all_contacts, cid), detect_info, t))
       IN
       IF ~validate(detect_info)
       THEN /\ outcome' = "rejected"
            /\ contact_id' = <<>>
            /\ UNCHANGED <<all_contacts, now>>
       ELSE IF ~creating /\ Get(all_contacts, cid) = None
       THEN /\ outcome' = "raised"
            /\ contact_id' = <<cid>>
            /\ UNCHANGED <<all_contacts, now>>
       ELSE IF Get(reg1, cid) = None
       THEN /\ outcome' = "raised"
            /\ contact_id' = <<cid>>
            /\ all_contacts' = reg1
            /\ now' = t
       ELSE LET c == Get(reg1, cid)
                z == tracker_measurement(c)
            IN
            /\ outcome' = IF creating THEN "created" ELSE "updated"
            /\ contact_id' = <<cid>>
            /\ now' = t
            /\ \E est \in KalmanCycle(c.kf.x, z) :
                  all_contacts' = Put(reg1, cid, tracker_record(c, est, z, epoch))

(* time.time() read by a later callback is later *)
Times(t) == {u \in 0..MaxTime : u - t = 1}

Next ==
    \/ \E d \in Detects(now) : callback(d)
    \/ \E d \in Detects(now), t \in Times(now) : d.stamp = now /\ tracker_callback(d, t)

Spec == Init /\ [][Next]_vars

----------------------------------------------------------------------------
(* contact.py on its own: a Contact is constructed for a detection that    *)
(* one of the create branches of callback accepts, its dt is assigned      *)
(* (callback: c.dt = epoch) and set_Q is called.                           *)

Shapes ==
    {d \in Detects(0) : validate(detect_info_of(d))
                        /\ ~(isnan(d.x_pos) /\ isnan(d.x_vel))}

DtValues == 0..MaxDt

InitContact ==
    /\ node = "contact"
    /\ now = 0
    /\ all_contacts = <<>>
    /\ data = <<>>
    /\ contact_id = <<>>
    /\ outcome = "init"
    /\ delivered = 0
    /\ contact = <<>>
    /\ threads = <<>>

construct(d, all_filters) ==
    /\ contact = <<>>
    /\ data' = d
    /\ contact' = Contact_with_filters(detect_info_of(d), all_filters, d.stamp)
    /\ outcome' = "Contact"
    /\ UNCHANGED <<node, now, all_contacts, contact_id, delivered, threads>>

assign_dt(e) ==
    /\ contact # <<>>
    /\ contact' = [contact EXCEPT !.dt = e]
    /\ outcome' = "dt"
    /\ UNCHANGED <<node, now, all_contacts, data, contact_id, delivered, threads>>

call_set_Q ==
    /\ contact # <<>>
    /\ contact' = set_Q(contact)
    /\ outcome' = "set_Q"
    /\ UNCHANGED <<node, now, all_contacts, data, contact_id, delivered, threads>>

NextContact ==
    \/ \E d \in Shapes, all_filters \in Banks : construct(d, all_filters)
    \/ \E e \in DtValues : assign_dt(e)
    \/ call_set_Q

SpecContact == InitContact /\ [][NextContact]_vars

----------------------------------------------------------------------------
(* The callback step by step.  rospy runs a subscriber's callback on the   *)
(* thread of the connection the message arrived on, one thread for each    *)
(* publisher of /detects, and neither node holds a lock: invocations on    *)
(* different threads interleave.  Each step below is one block of          *)
(* callback, run without interruption.                                     *)

Threads == {1, 2}

Steps == <<"validate", "associate", "create_or_update", "predict", "update", "record">>

(* the order with the measurement update left out *)
following_without_update(i) == IF i = 4 THEN Steps[6] ELSE Steps[i + 1]

(* the block that follows block number i *)
following(i) == Steps[i + 1]

idle == [pc |-> "idle", d |-> <<>>, cid |-> <<>>, epoch |-> 0, creating |-> FALSE,
         steps |-> <<>>]

(* the invocation th moves on: block b has run, next is pc *)
advance(th, b, pc, fields) ==
    threads' = [threads EXCEPT ![th] = [fields EXCEPT !.pc = pc, !.steps = Append(@, b)]]

(* c.kf.predict(); c.kf.update(z): kf after the cycle *)
kf_update(c, est, z) == [c EXCEPT !.kf.x = est, !.kf.z = z]

(* tracker_debug.py: the appends to xs, zs, ps, times *)
append_history(c, epoch) ==
    [c EXCEPT
        !.xs = Append(@, c.kf.x),
        !.zs = Append(@, c.kf.z),
        !.ps = Append(@, "P"),
        !.times = Append(@, epoch)]

(* tracker.py: the appends to xs, zs, times *)
tracker_append_history(c, epoch) ==
    [c EXCEPT
        !.xs = Append(@, c.kf.x),
        !.zs = Append(@, c.kf.z),
        !.times = Append(@, epoch)]

InitThreads ==
    /\ node \in Nodes
    /\ now = 0
    /\ all_contacts = <<>>
    /\ data = <<>>
    /\ contact_id = <<>>
    /\ outcome = "init"
    /\ delivered = 0
    /\ contact = <<>>
    /\ threads = [th \in Threads |-> idle]

(* a message arrives on thread th, its first; thread 1 is the one of the   *)
(* connection whose message arrives first                                  *)
deliver(th, d) ==
    /\ threads[th].pc = "idle"
    /\ \A other \in Threads : other < th => threads[other].pc # "idle"
    /\ delivered' = delivered + 1
    /\ data' = d
    /\ now' = IF node = "tracker" THEN now ELSE Clock(now, d.stamp)
    /\ threads' = [threads EXCEPT ![th] = [idle EXCEPT !.pc = Steps[1], !.d = d]]
    /\ UNCHANGED <<node, all_contacts, contact_id, outcome, contact>>

(* the two checks of the coordinate pairs *)
step_validate(th) ==
    /\ threads[th].pc = "validate"
    /\ IF validate(detect_info_of(threads[th].d))
       THEN /\ advance(th, "validate", following(1), threads[th])
            /\ UNCHANGED outcome
       ELSE /\ advance(th, "validate", "done", threads[th])
            /\ outcome' = "rejected"
    /\ UNCHANGED <<node, now, all_contacts, data, contact_id, delivered, contact>>

(* contact_id: tracker_debug.py 242-248, tracker.py 206-209 *)
step_associate(th) ==
    /\ threads[th].pc = "associate"
    /\ LET detect_info == detect_info_of(threads[th].d)
           found == IF node = "tracker"
                    THEN [raised |-> FALSE, id |-> tracker_contact_id(detect_info)]
                    ELSE lookup(all_contacts, detect_info)
       IN IF found.raised
          THEN /\ advance(th, "associate", "done", threads[th])
               /\ outcome' = "raised"
               /\ UNCHANGED contact_id
          ELSE /\ advance(th, "associate", following(2),
                          [threads[th] EXCEPT !.cid = <<found.id>>])
               /\ contact_id' = <<found.id>>
               /\ UNCHANGED outcome
    /\ UNCHANGED <<node, now, all_contacts, data, delivered, contact>>

(* the create branch or the update branch; t is what time.time() returns   *)
(* in tracker.py                                                           *)
step_create_or_update(th, t) ==
    /\ threads[th].pc = "create_or_update"
    /\ LET detect_info == detect_info_of(threads[th].d)
           cid == threads[th].cid[1]
           creating == cid \notin Keys(all_contacts)
       IN IF ~creating /\ Get(all_contacts, cid) = None
          THEN /\ advance(th, "create_or_update", "done", threads[th])
               /\ outcome' = "raised"
               /\ UNCHANGED <<all_contacts, now>>
          ELSE /\ advance(th, "create_or_update", following(3),
                          [threads[th] EXCEPT
                              !.creating = creating,
                              !.epoch = IF creating THEN 0
                                        ELSE IF node = "tracker"
                                        THEN tracker_epoch_of(Get(all_contacts, cid), t)
                                        ELSE epoch_of(Get(all_contacts, cid),
                                                      detect_info.header.stamp)])
               /\ all_contacts' =
                     IF node = "tracker"
                     THEN IF creating
                          THEN Put(all_contacts, cid, tracker_new_contact(detect_info, t, cid))
                          ELSE Put(all_contacts, cid,
                                   tracker_refresh(Get(all_contacts, cid), detect_info, t))
                     ELSE IF creating
                          THEN Put(all_contacts, detect_info.header.stamp,
                                   new_contact(detect_info))
                          ELSE Put(all_contacts, cid,
                                   refresh(Get(all_contacts, cid), detect_info))
               /\ now' = IF node = "tracker" THEN t ELSE now
               /\ UNCHANGED outcome
    /\ UNCHANGED <<node, data, contact_id, delivered, contact>>

(* c = self.all_contacts[contact_id]; c.kf.predict(): an unknown id raises *)
(* KeyError, a None entry AttributeError.  What predict does to kf.x is    *)
(* part of KalmanCycle, in the next block.                                 *)
step_predict(th) ==
    /\ threads[th].pc = "predict"
    /\ LET cid == threads[th].cid[1]
       IN IF cid \notin Keys(all_contacts)
          THEN /\ advance(th, "predict", "done", threads[th])
               /\ outcome' = "KeyError"
          ELSE IF Get(all_contacts, cid) = None
          THEN /\ advance(th, "predict", "done", threads[th])
               /\ outcome' = "raised"
          ELSE /\ advance(th, "predict", following(4), threads[th])
               /\ UNCHANGED outcome
    /\ UNCHANGED <<node, now, all_contacts, data, contact_id, delivered, contact>>

(* c.kf.update(...) with the measurement of this detection *)
step_update(th) ==
    /\ threads[th].pc = "update"
    /\ LET cid == threads[th].cid[1]
           c == Get(all_contacts, cid)
           z == IF node = "tracker" THEN tracker_measurement(c)
                ELSE measurement(c, detect_info_of(threads[th].d))
       IN \E est \in KalmanCycle(c.kf.x, z) :
             all_contacts' = Put(all_contacts, cid, kf_update(c, est, z))
    /\ advance(th, "update", following(5), threads[th])
    /\ UNCHANGED <<node, now, data, contact_id, outcome, delivered, contact>>

(* the appends that end callback *)
step_record(th) ==
    /\ threads[th].pc = "record"
    /\ LET cid == threads[th].cid[1]
           c == Get(all_contacts, cid)
       IN all_contacts' =
             Put(all_contacts, cid,
                 IF node = "tracker" THEN tracker_append_history(c, threads[th].epoch)
                 ELSE append_history(c, threads[th].epoch))
    /\ advance(th, "record", "done", threads[th])
    /\ outcome' = IF threads[th].creating THEN "created" ELSE "updated"
    /\ UNCHANGED <<node, now, data, contact_id, delivered, contact>>

NextThreads ==
    \/ \E th \in Threads, d \in Detects(now) :
          (node = "tracker" => d.stamp = now) /\ deliver(th, d)
    \/ \E th \in Threads : step_validate(th)
    \/ \E th \in Threads : step_associate(th)
    \/ \E th \in Threads, t \in 0..MaxTime :
          /\ IF node = "tracker" THEN t \in Times(now) ELSE t = now
          /\ step_create_or_update(th, t)
    \/ \E th \in Threads : step_predict(th)
    \/ \E th \in Threads : step_update(th)
    \/ \E th \in Threads : step_record(th)

SpecThreads == InitThreads /\ [][NextThreads]_vars

----------------------------------------------------------------------------
(* Vocabulary of the properties *)

Present(v) == v # NaN

(* exactly one of a coordinate pair is present *)
HalfPresent(a, b) == Present(a) # Present(b)

Malformed(d) == HalfPresent(d.x_pos, d.y_pos) \/ HalfPresent(d.x_vel, d.y_vel)

Accepted(d) == ~Malformed(d)

(* a step that is one run of callback *)
Delivery == delivered' = delivered + 1

Entries(reg) == 1..Len(reg)

NoNone(reg) == \A i \in Entries(reg) : reg[i].val # None

(* the entries whose contact passes the association gate for message d *)
Passing(reg, d) ==
    {i \in Entries(reg) : reg[i].val # None /\ gate(detect_info_of(d), reg[i].val)}

LastUpdated(c) == IF node = "tracker" THEN c.last_accessed ELSE c.last_measured

Threshold == IF node = "tracker" THEN max_time ELSE max_stale_contact_time

HistoryGrew(c, c2) ==
    /\ Len(c2.xs) = Len(c.xs) + 1
    /\ Len(c2.zs) = Len(c.zs) + 1
    /\ Len(c2.times) = Len(c.times) + 1

----------------------------------------------------------------------------
(* C1: A detection in which exactly one of (x_pos, y_pos) or exactly one   *)
(* of (x_vel, y_vel) is present leaves the registry and every stored       *)
(* contact unchanged: no contact is created and none is updated.           *)
C1_RejectedNoMutation ==
    [][(Delivery /\ Malformed(data')) => all_contacts' = all_contacts]_vars

(* a half-present detection has been processed against a registry that     *)
(* holds a contact                                                         *)
C1_Witness ==
    /\ outcome = "rejected"
    /\ Malformed(data)
    /\ Contacts(all_contacts) # {}

(* C2: For every accepted detection, if no contact passes the gate the     *)
(* registry grows by exactly one entry and no existing entry is modified   *)
(* (also when the stamp equals the id of a contact in the registry); if    *)
(* some contact passes, the registry size is unchanged and a passing       *)
(* contact is the one updated.  Stated for tracker_debug.py and for        *)
(* registries without a None entry.                                        *)
C2_CreateOrUpdate ==
    [][(Delivery /\ node = "tracker_debug" /\ Accepted(data') /\ NoNone(all_contacts)) =>
         IF Passing(all_contacts, data') = {}
         THEN /\ Len(all_contacts') = Len(all_contacts) + 1
              /\ SubSeq(all_contacts', 1, Len(all_contacts)) = all_contacts
         ELSE /\ Len(all_contacts') = Len(all_contacts)
              /\ \E i \in Passing(all_contacts, data') :
                    /\ HistoryGrew(all_contacts[i].val, all_contacts'[i].val)
                    /\ \A j \in Entries(all_contacts) \ {i} :
                          all_contacts'[j] = all_contacts[j]]_vars

(* C3: A contact whose last-updated time is older than the staleness       *)
(* threshold is removed by the next expiry sweep, the one that ends each   *)
(* callback: a contact that is stale when a callback completes, and is     *)
(* not the contact that callback created or updated, is no longer in the   *)
(* registry afterwards.                                                    *)
Stale(c, t) == t - LastUpdated(c) > Threshold

C3_StaleRemoved ==
    [][(Delivery /\ outcome' \in {"created", "updated"}) =>
         \A i \in Entries(all_contacts) :
            (/\ all_contacts[i].val # None
             /\ Stale(all_contacts[i].val, now')
             /\ <<all_contacts[i].key>> # contact_id') =>
                all_contacts[i].key \notin Keys(all_contacts')]_vars

(* C4: Two accepted detections with positions, processed on consecutive   *)
(* cycles (distinct stamps) from an empty registry: at the same position   *)
(* they get the same contact id and the registry holds one contact; with   *)
(* the second farther than the gating threshold from the first on some     *)
(* axis, in either direction, the registry holds two contacts.  Stated     *)
(* for tracker_debug.py.                                                   *)
Abs(v) == IF v < 0 THEN -v ELSE v

FarApart(d1, d2, c) ==
    \/ Abs(d2.x_pos - d1.x_pos) >= (d2.pos_covar[0] + c.kf.R[1]) * 2
    \/ Abs(d2.y_pos - d1.y_pos) >= (d2.pos_covar[7] + c.kf.R[2]) * 2

C4_SameOrDistinct ==
    [][(/\ Delivery /\ node = "tracker_debug"
        /\ delivered = 1 /\ outcome = "created"
        /\ Accepted(data) /\ Present(data.x_pos)
        /\ Accepted(data') /\ Present(data'.x_pos)
        /\ data'.stamp # data.stamp) =>
         /\ (data'.x_pos = data.x_pos /\ data'.y_pos = data.y_pos) =>
               (Len(all_contacts') = 1 /\ contact_id' = contact_id)
         /\ FarApart(data, data', all_contacts[1].val) =>
               (/\ Len(all_contacts') = 2
                /\ all_contacts'[1].key # all_contacts'[2].key)]_vars

(* C5: Each accepted detection modifies at most one contact per cycle:     *)
(* at most one registry entry differs after the callback, whether it       *)
(* returns or raises; and after callback returns exactly one contact's     *)
(* history (xs, zs, times) has grown, by one entry, every other entry of   *)
(* the registry being unchanged.                                           *)
Changed(reg, reg2) ==
    {i \in Entries(reg2) : i > Len(reg) \/ reg2[i] # reg[i]}

Returned(o) == o \in {"created", "updated"}

C5_SingleAssignment ==
    [][(Delivery /\ Accepted(data')) =>
         /\ Len(all_contacts') >= Len(all_contacts)
         /\ Cardinality(Changed(all_contacts, all_contacts')) <= 1
         /\ Returned(outcome') =>
               \E i \in Entries(all_contacts') :
                  /\ Changed(all_contacts, all_contacts') = {i}
                  /\ all_contacts'[i].val # None
                  /\ IF i > Len(all_contacts)
                     THEN /\ Len(all_contacts'[i].val.xs) = 1
                          /\ Len(all_contacts'[i].val.zs) = 1
                          /\ Len(all_contacts'[i].val.times) = 1
                     ELSE HistoryGrew(all_contacts[i].val, all_contacts'[i].val)]_vars

(* an accepted detection has updated one contact of a registry that holds  *)
(* another contact too                                                     *)
C5_Witness ==
    /\ outcome = "updated"
    /\ Accepted(data)
    /\ Cardinality(Contacts(all_contacts)) >= 2

(* C6: No two contacts in the registry share an id, each contact is        *)
(* stored under the key equal to its id, the id of a stored contact never  *)
(* changes, and the id of a new contact is the detection's stamp           *)
(* (tracker_debug.py) or the constant 1 (tracker.py), whatever the         *)
(* detection's position.                                                   *)
IdsOk(reg) ==
    /\ \A i, j \in Entries(reg) : i # j => reg[i].key # reg[j].key
    /\ \A i \in Entries(reg) : reg[i].val # None => reg[i].val.id = reg[i].key

UpdateTime(d) == IF node = "tracker" THEN now' ELSE d.stamp

CreatedAt(c) == IF node = "tracker" THEN c.first_accessed ELSE c.first_measured

Last(q) == q[Len(q)]

C8_DtSinceLastUpdate ==
    [][(/\ Delivery /\ outcome' = "updated"
        /\ (node = "tracker" \/ Passing(all_contacts, data') # {})
        /\ Len(Get(all_contacts, contact_id'[1]).times) >= 2
        /\ LastUpdated(Get(all_contacts, contact_id'[1]))
              > CreatedAt(Get(all_contacts, contact_id'[1]))
        /\ UpdateTime(data') > LastUpdated(Get(all_contacts, contact_id'[1]))) =>
         LET c == Get(all_contacts, contact_id'[1])
             c2 == Get(all_contacts', contact_id'[1])
             elapsed == UpdateTime(data') - LastUpdated(c)
         IN /\ c2.dt = elapsed
            /\ c2.kf.Q.dt = elapsed * qhat
            /\ Last(c2.times) = elapsed]_vars

(* C9: The process noise Q is never computed with dt <= 0, also for two    *)
(* detections with equal stamps and for a detection stamped earlier than   *)
(* the contact's reference stamp: whenever a detection is associated to    *)
(* a contact of tracker_debug.py through the gate, the dt set on the       *)
(* contact and handed to the Q computation is positive.                    *)
C9_DtPositive ==
    [][(/\ Delivery /\ node = "tracker_debug" /\ outcome' = "updated"
        /\ Passing(all_contacts, data') # {}) =>
         LET c2 == Get(all_contacts', contact_id'[1])
         IN c2.dt > 0 /\ c2.kf.Q.dt > 0]_vars

(* C10: Every value stored in the registry of tracker_debug.py is a        *)
(* contact with an initialized filter: callback never stores an empty or   *)
(* null entry, for any accepted detection shape.                           *)
C10_NoNullEntry ==
    node = "tracker_debug" =>
       \A i \in Entries(all_contacts) :
           /\ all_contacts[i].val # None
           /\ "kf" \in DOMAIN all_contacts[i].val


----------------------------------------------------------------------------
(* Properties of contact.py's Contact *)

Constructed == contact # <<>>

Filters == IF Constructed THEN 1..Len(contact.all_filters) ELSE {}

Rows == 0..5

(* C11: A Contact constructed for a single detection with position         *)
(* present has, in every filter of its bank, the seeded state x = x_pos,   *)
(* y = y_pos, and the seeded covariance P[0][0] = 100 * the reported       *)
(* x-position variance (pose covariance [0][0], index 0) and P[1][1] =     *)
(* 100 * the reported y-position variance (pose covariance [1][1],         *)
(* index 7).                                                               *)
C11_SeedRoundTrip ==
    (Constructed /\ Present(contact.info.x_pos)) =>
        \A i \in Filters :
            /\ contact.all_filters[i].x[0] = contact.info.x_pos
            /\ contact.all_filters[i].x[1] = contact.info.y_pos
            /\ contact.all_filters[i].P[<<0, 0>>] = 100 * contact.info.pos_covar[0]
            /\ contact.all_filters[i].P[<<1, 1>>] = 100 * contact.info.pos_covar[7]

(* C16: After init_filters, in every filter whose filter_type is 'first',  *)
(* every entry of F in columns 4 and 5 (the entries that multiply an       *)
(* acceleration component) is zero.  Stated for the detection shapes       *)
(* init_filters sets F for, those with position present.                   *)
C16_FirstOrderFreezesAcceleration ==
    (Constructed /\ Present(contact.info.x_pos)) =>
        \A i \in Filters :
            contact.all_filters[i].filter_type = "first" =>
                \A r \in Rows, col \in {4, 5} : contact.all_filters[i].F[<<r, col>>] = 0

(* C17: After every call of set_Q (the calls init_filters makes at         *)
(* construction included) every filter of the bank has a 6x6 Q: for a      *)
(* 'first' filter the top-left 4x4 block is the noise block computed for   *)
(* the contact's dt and every entry in rows 4-5 and columns 4-5 is zero,   *)
(* for a 'second' filter Q is the full 6x6 block computed for dt.          *)
QPadded(c, f) ==
    /\ Dim(f.Q) = 6
    /\ DOMAIN f.Q = Rows \X Rows
    /\ IF f.filter_type = "first"
       THEN \A p \in Rows \X Rows :
               f.Q[p] = IF p[1] <= 3 /\ p[2] <= 3
                        THEN Q_continuous_white_noise(2, c.vel_var, c.dt, 2)[p]
                        ELSE 0
       ELSE f.Q = Q_continuous_white_noise(3, c.acc_var, c.dt, 2)

C17_QZeroPadded ==
    [][outcome' \in {"Contact", "set_Q"} =>
          \A i \in 1..Len(contact'.all_filters) : QPadded(contact', contact'.all_filters[i])]_vars

(* set_Q has been called on a bank holding a 'first' and a 'second'        *)
(* filter, after dt was changed from the value it had at construction      *)
C17_Witness ==
    /\ Constructed
    /\ outcome = "set_Q"
    /\ contact.dt = 2
    /\ \E i, j \in Filters :
          /\ contact.all_filters[i].filter_type = "first"
          /\ contact.all_filters[j].filter_type = "second"
          /\ contact.all_filters[i].Q[<<0, 0>>] # 0


----------------------------------------------------------------------------
(* C13: check_all_contacts returns the id of the first contact, in the     *)
(* registry's iteration order, for which on both axes the absolute         *)
(* difference between the detection's position and the contact's           *)
(* estimated position is less than twice the sum of the detection's        *)
(* reported variance and the contact's term for that axis, and the new     *)
(* stamp when there is none: a detection below the contact by more than    *)
(* the threshold on an axis is not matched.  Stated for registries of      *)
(* tracker_debug.py without a None entry.                                  *)
WithinGate(di, c) ==
    /\ Present(di.x_pos) /\ Present(c.kf.x[1])
    /\ Abs(di.x_pos - c.kf.x[1]) < (di.pos_covar[0] + c.kf.R[1]) * 2
    /\ Present(di.y_pos) /\ Present(c.kf.x[2])
    /\ Abs(di.y_pos - c.kf.x[2]) < (di.pos_covar[7] + c.kf.R[2]) * 2

FirstWithinGate(reg, d) ==
    LET matching == {i \in Entries(reg) : WithinGate(detect_info_of(d), reg[i].val)}
    IN IF matching = {} THEN d.stamp
       ELSE reg[CHOOSE i \in matching : \A j \in matching : i <= j].val.id

C13_FirstMatchByAbsoluteDifference ==
    [][(/\ Delivery /\ node = "tracker_debug"
        /\ Accepted(data') /\ Len(all_contacts) > 0 /\ NoNone(all_contacts)) =>
         contact_id' = <<FirstWithinGate(all_contacts, data')>>]_vars


----------------------------------------------------------------------------
(* C18: Between callbacks, for every contact of the registry, xs, zs, ps   *)
(* and times have the same length, the number of accepted detections       *)
(* assigned to the contact: one entry for the creating detection, with     *)
(* elapsed time 0, and one more for each later update; the entries         *)
(* already recorded are never removed or rewritten.                        *)
IsPrefix(q, q2) == Len(q) <= Len(q2) /\ SubSeq(q2, 1, Len(q)) = q

SameLengths(c) ==
    /\ Len(c.zs) = Len(c.xs)
    /\ Len(c.ps) = Len(c.xs)
    /\ Len(c.times) = Len(c.xs)

AppendOnly(c, c2) ==
    /\ IsPrefix(c.xs, c2.xs) /\ IsPrefix(c.zs, c2.zs)
    /\ IsPrefix(c.ps, c2.ps) /\ IsPrefix(c.times, c2.times)

Assigned(k) == Returned(outcome') /\ contact_id' = <<k>>

C18_HistoriesInStep ==
    [][\A i \in Entries(all_contacts') :
          all_contacts'[i].val # None =>
             LET c2 == all_contacts'[i].val
                 fresh == i > Len(all_contacts) \/ all_contacts[i].val = None
             IN /\ SameLengths(c2)
                /\ c2.times[1] = 0
                /\ IF fresh
                   THEN Len(c2.xs) = 1
                   ELSE /\ AppendOnly(all_contacts[i].val, c2)
                        /\ Len(c2.xs) = Len(all_contacts[i].val.xs)
                                          + (IF Assigned(all_contacts'[i].key) THEN 1 ELSE 0)]_vars


----------------------------------------------------------------------------
(* Properties of the callbacks in progress *)

Ran(th, b) == \E i \in 1..Len(threads[th].steps) : threads[th].steps[i] = b

(* thread th runs block b in this step *)
Runs(th, b) == threads'[th].steps = Append(threads[th].steps, b)

(* between its create-or-update block and the end of its record block an   *)
(* invocation is part-way through mutating the contact under its id        *)
Mutating(th) == threads[th].pc \in {"predict", "update", "record"}

(* the registries two detections leave when their callbacks run one after  *)
(* the other on an empty registry                                          *)
Sequential(d1, d2) == UNION {after_callback(r, d2) : r \in after_callback(<<>>, d1)}

(* C12: Detections are processed one at a time against the registry:       *)
(* when two invocations of callback overlap, no contact is being mutated   *)
(* by both at once, and the registry they leave is one that some           *)
(* sequential order of the same two detections leaves (never two contacts  *)
(* for detections that one after the other associate to one).  Stated for  *)
(* tracker_debug.py and two accepted detections that carry a position and  *)
(* different stamps.                                                       *)
Overlapping ==
    /\ node = "tracker_debug"
    /\ \A th \in Threads :
          /\ threads[th].pc # "idle"
          /\ Accepted(threads[th].d) /\ Present(threads[th].d.x_pos)
    /\ threads[1].d.stamp # threads[2].d.stamp

C12_OneAtATime ==
    Overlapping =>
       /\ (Mutating(1) /\ Mutating(2)) => threads[1].cid # threads[2].cid
       /\ (\A th \in Threads : threads[th].pc = "done") =>
             all_contacts \in Sequential(threads[1].d, threads[2].d)
                              \cup Sequential(threads[2].d, threads[1].d)

(* C14: Within one invocation the blocks run in the order validate,        *)
(* associate, create-or-update, predict, update, record: predict only      *)
(* after the contact was created or refreshed, the measurement update      *)
(* only after predict, the appends only after the update of the same       *)
(* invocation; and a contact's filter estimate changes only in an update   *)
(* block, its histories only in a record block.                            *)
Histories(c) == <<c.xs, c.zs, c.ps, c.times>>

C15_KnownIdAtLookup ==
    /\ outcome # "KeyError"
    /\ \A th \in Threads :
          Mutating(th) => threads[th].cid[1] \in Keys(all_contacts)

(* an invocation is about to fetch a contact that it did not create,       *)
(* while the registry holds a second contact                               *)
C15_Witness ==
    \E th \in Threads :
        /\ threads[th].pc = "predict"
        /\ ~threads[th].creating
        /\ \E other \in Threads : other # th /\ threads[other].creating

====
